---- MODULE Spec2Model ----
(***************************************************************************)
(* A model of the derive engine of error-proc-macros: the attribute        *)
(* resolver (common.rs), the enum engine (enum_error.rs), the struct       *)
(* engine (struct_error.rs), and the behaviour of the code they emit       *)
(* (std::fmt::Display and From implementations).                           *)
(*                                                                         *)
(* One behaviour of Spec is one generation request: a DeriveInput is given *)
(* in the initial state, the engine classifies the variants one by one     *)
(* (the iterator of EnumError::from), builds the EnumError / StructError,  *)
(* emits the token stream, and afterwards the emitted code is run on       *)
(* values of the declared type.                                            *)
(***************************************************************************)
EXTENDS Integers, Sequences, FiniteSets, TLC

(***************************************************************************)
(* Bounds of the model.                                                    *)
(***************************************************************************)
MaxVariants == 2
MaxFields == 2

(***************************************************************************)
(* Option<T> and Result<T, E>.                                             *)
(***************************************************************************)
None == [some |-> FALSE, v |-> <<>>]
Some(x) == [some |-> TRUE, v |-> x]
\* Option<(Token![=], Expr)> of a variant: the discriminant is kept by its value
NoDiscriminant == [some |-> FALSE, v |-> 0]

Ok(x) == [ok |-> TRUE, v |-> x, err |-> ""]
Err(e) == [ok |-> FALSE, v |-> <<>>, err |-> e]

\* Result::ok
ResultOk(r) == IF r.ok THEN Some(r.v) ELSE None

(***************************************************************************)
(* String literals (LitStr).  A literal is kept as the sequence of pieces  *)
(* the formatting primitive sees in it: literal text, a positional         *)
(* placeholder {} or a named placeholder {name}.                           *)
(***************************************************************************)
Lit(s) == [k |-> "lit", s |-> s]
Pos == [k |-> "pos", s |-> ""]
Named(n) == [k |-> "named", s |-> n]

\* the text of a literal as written in the source
RECURSIVE RawText(_)
RawText(lit) ==
    IF lit = <<>> THEN ""
    ELSE LET p == Head(lit)
             t == CASE p.k = "lit" -> p.s
                    [] p.k = "pos" -> "{}"
                    [] p.k = "named" -> "{" \o p.s \o "}"
         IN t \o RawText(Tail(lit))

FmtPositional == <<Lit("error "), Pos>>
FmtNamed == <<Lit("decoding error at "), Named("file"), Lit(" "), Named("offset")>>
FmtArgs == <<Lit("lorem ipsum "), Named("arg_0"), Lit(" "), Named("arg_1")>>
FmtPlain == <<Lit("unexpected null pointer")>>
FmtTopLevel == <<Lit("an error occured: "), Pos>>

\* display directives: the closure |x| x + 1, and a text with an unclosed
\* delimiter
DisplayInc == <<Lit("|x| x + 1")>>
DisplayUnbalanced == <<Lit("(")>>

(***************************************************************************)
(* Attributes.  meta is the syn::Meta kind, lit the kind of the value of a *)
(* name-value attribute.                                                   *)
(***************************************************************************)
StrAttr(key, lit) == [key |-> key, meta |-> "NameValue", lit |-> "Str", val |-> lit]
IntAttr(key) == [key |-> key, meta |-> "NameValue", lit |-> "Int", val |-> <<>>]
PathAttr(key) == [key |-> key, meta |-> "Path", lit |-> "", val |-> <<>>]

\* Iterator::find over the attributes: the index of the first one whose path
\* is `search`, 0 when there is none
RECURSIVE FindFrom(_, _, _)
FindFrom(attrs, search, i) ==
    IF i > Len(attrs) THEN 0
    ELSE IF attrs[i].key = search THEN i
    ELSE FindFrom(attrs, search, i + 1)

\* variation: the last attribute with the key decides
attrs_get_value_last(attrs, search) ==
    LET with == {i \in 1..Len(attrs) : attrs[i].key = search}
        i == CHOOSE k \in with : \A j \in with : j <= k
    IN IF with = {} THEN Err("NotFound")
       ELSE IF attrs[i].meta # "NameValue" THEN Err("NotNameValue")
       ELSE Ok(attrs[i])

attrs_get_value(attrs, search) ==
    LET i == FindFrom(attrs, search, 1)
    IN IF i = 0 THEN Err("NotFound")
       ELSE IF attrs[i].meta # "NameValue" THEN Err("NotNameValue")
       ELSE Ok(attrs[i])

attrs_get_lit_str(attrs, search) ==
    LET expr == attrs_get_value(attrs, search)
    IN IF ~expr.ok THEN Err(expr.err)
       ELSE IF expr.v.lit # "Str" THEN Err("NotStringLiteral")
       ELSE Ok(expr.v.val)

(***************************************************************************)
(* The parsed declaration (syn::DeriveInput), read-only input of a request.*)
(*   field    [ident, ty, attrs]          ident = "" for an unnamed field  *)
(*   fields   [kind, list]                kind: Unit | Named | Unnamed     *)
(*   variant  [ident, attrs, fields, discriminant]                         *)
(*   input    [ident, attrs, data, variants, fields]                       *)
(* Types are opaque handles compared by equality.                          *)
(***************************************************************************)
Field(ident, ty, attrs) == [ident |-> ident, ty |-> ty, attrs |-> attrs]
FieldsUnit == [kind |-> "Unit", list |-> <<>>]
FieldsNamed(list) == [kind |-> "Named", list |-> list]
FieldsUnnamed(list) == [kind |-> "Unnamed", list |-> list]
Variant(ident, attrs, fields, discriminant) ==
    [ident |-> ident, attrs |-> attrs, fields |-> fields, discriminant |-> discriminant]

(***************************************************************************)
(* Diagnostics raised with Diagnostic::abort.  kind stands for the message *)
(* text, ident for the name the message quotes, cause for the resolver     *)
(* error appended to it.                                                   *)
(***************************************************************************)
Diag(kind, ident, cause) == [kind |-> kind, ident |-> ident, cause |-> cause]
NoDiag == Diag("", "", "")

\* get_required_format: the `format` attribute, or abort naming the variant
\* variation: a missing format is replaced by "{}" instead of being refused
get_required_format_or_default(attrs, ident) ==
    LET r == attrs_get_lit_str(attrs, "format")
    IN IF r.ok THEN Ok(r.v) ELSE Ok(<<Pos>>)

get_required_format(attrs, ident) ==
    LET r == attrs_get_lit_str(attrs, "format")
    IN IF r.ok THEN Ok(r.v)
       ELSE [ok |-> FALSE, v |-> <<>>, err |-> Diag("RequiredFormat", ident, r.err)]

(***************************************************************************)
(* enum EnumVariant and impl From<&Variant> for EnumVariant.               *)
(***************************************************************************)
AnonymousStruct(ident, fields, format) ==
    [tag |-> "AnonymousStruct", ident |-> ident, fields |-> fields, format |-> format]
Discriminant(discriminant, format, display, ident) ==
    [tag |-> "Discriminant", discriminant |-> discriminant, format |-> format,
     display |-> display, ident |-> ident]
SingleType(ident, display, format, ty) ==
    [tag |-> "SingleType", ident |-> ident, display |-> display, format |-> format,
     ty |-> ty]
Tuple(ident, format, displays) ==
    [tag |-> "Tuple", ident |-> ident, format |-> format, displays |-> displays]
Unit(ident, format) == [tag |-> "Unit", ident |-> ident, format |-> format]

\* fields.iter().map(|field| attrs_get_lit_str(&field.attrs, "display").ok())
FieldDisplays(list) ==
    [i \in 1..Len(list) |-> ResultOk(attrs_get_lit_str(list[i].attrs, "display"))]

\* the (display, ident) pairs of named fields
NamedFieldDisplays(list) ==
    [i \in 1..Len(list) |->
        [display |-> ResultOk(attrs_get_lit_str(list[i].attrs, "display")),
         ident |-> list[i].ident]]

\* variation: a discriminant decides the shape whatever the fields are
EnumVariantFrom_discriminant_first(variant) ==
    IF variant.discriminant.some
    THEN Ok(Discriminant(variant.discriminant.v,
                         ResultOk(attrs_get_lit_str(variant.attrs, "format")),
                         ResultOk(attrs_get_lit_str(variant.attrs, "display")),
                         variant.ident))
    ELSE LET required == get_required_format(variant.attrs, variant.ident)
         IN CASE variant.fields.kind = "Named" ->
                   IF required.ok
                   THEN Ok(AnonymousStruct(variant.ident,
                                           NamedFieldDisplays(variant.fields.list),
                                           required.v))
                   ELSE required
              [] variant.fields.kind = "Unnamed" ->
                   IF Len(variant.fields.list) = 1
                   THEN Ok(SingleType(variant.ident,
                                      ResultOk(attrs_get_lit_str(variant.attrs, "display")),
                                      ResultOk(attrs_get_lit_str(variant.attrs, "format")),
                                      variant.fields.list[1].ty))
                   ELSE IF required.ok
                   THEN Ok(Tuple(variant.ident, required.v,
                                 FieldDisplays(variant.fields.list)))
                   ELSE required
              [] variant.fields.kind = "Unit" ->
                   IF required.ok THEN Ok(Unit(variant.ident, required.v))
                   ELSE required

\* the classification of one variant: Ok(EnumVariant), or the diagnostic
\* the conversion aborts with
EnumVariantFrom(variant) ==
    IF variant.discriminant.some /\ variant.fields = FieldsUnit
    THEN Ok(Discriminant(variant.discriminant.v,
                         ResultOk(attrs_get_lit_str(variant.attrs, "format")),
                         ResultOk(attrs_get_lit_str(variant.attrs, "display")),
                         variant.ident))
    ELSE LET required == get_required_format(variant.attrs, variant.ident)
         IN CASE variant.fields.kind = "Named" ->
                   IF required.ok
                   THEN Ok(AnonymousStruct(variant.ident,
                                           NamedFieldDisplays(variant.fields.list),
                                           required.v))
                   ELSE required
              [] variant.fields.kind = "Unnamed" ->
                   IF Len(variant.fields.list) = 1
                   THEN Ok(SingleType(variant.ident,
                                      ResultOk(attrs_get_lit_str(variant.attrs, "display")),
                                      ResultOk(attrs_get_lit_str(variant.attrs, "format")),
                                      variant.fields.list[1].ty))
                   ELSE IF required.ok
                   THEN Ok(Tuple(variant.ident, required.v,
                                 FieldDisplays(variant.fields.list)))
                   ELSE required
              [] variant.fields.kind = "Unit" ->
                   IF required.ok THEN Ok(Unit(variant.ident, required.v))
                   ELSE required

(***************************************************************************)
(* Emitted expressions.  A variable is an identifier in scope, a           *)
(* discriminant expression, or a member of self.                           *)
(***************************************************************************)
VarIdent(name) == [k |-> "ident", name |-> name]
VarExpr(n) == [k |-> "expr", n |-> n]
VarSelf(member) == [k |-> "self", member |-> member]

\* LitStr::parse::<TokenStream2>: the lexer rejects unbalanced delimiters
RECURSIVE Balanced(_, _)
Balanced(lit, depth) ==
    IF lit = <<>> THEN depth = 0
    ELSE LET t == Head(lit).s
         IN IF t = "(" THEN Balanced(Tail(lit), depth + 1)
            ELSE IF t = ")" THEN depth > 0 /\ Balanced(Tail(lit), depth - 1)
            ELSE Balanced(Tail(lit), depth)

LitStrParse(lit) == IF Balanced(lit, 0) THEN Ok(lit) ELSE Err("LexError")

\* display_field: (#conversion)(#variable) with the display closure, the
\* variable itself without; a parse error becomes compile_error! tokens
ExprVar(variable) == [k |-> "var", var |-> variable]
ExprCall(conversion, variable) == [k |-> "call", conv |-> conversion, var |-> variable]
ExprLitStr(lit) == [k |-> "litstr", lit |-> lit]
CompileErrorTokens == <<Lit("compile_error!")>>

display_field(display, variable) ==
    IF display.some
    THEN LET parsed == LitStrParse(display.v)
             conversion == IF parsed.ok THEN parsed.v ELSE CompileErrorTokens
         IN ExprCall(conversion, variable)
    ELSE ExprVar(variable)

(***************************************************************************)
(* Emitted match arms: the pattern binds `binders` to the payload in       *)
(* order, `lets` rebind names, then format!(format, args...) is the arm's  *)
(* value.                                                                  *)
(***************************************************************************)
Let(name, expr) == [name |-> name, expr |-> expr]
Arm(ident, pattern, binders, lets, format, args) ==
    [variant |-> ident, pattern |-> pattern, binders |-> binders, lets |-> lets,
     format |-> format, args |-> args]

\* format!("arg_{}", i)
DigitText(d) ==
    CASE d = 0 -> "0" [] d = 1 -> "1" [] d = 2 -> "2" [] d = 3 -> "3" [] d = 4 -> "4"
      [] d = 5 -> "5" [] d = 6 -> "6" [] d = 7 -> "7" [] d = 8 -> "8" [] d = 9 -> "9"

RECURSIVE IntToStr(_)
IntToStr(n) ==
    IF n < 10 THEN DigitText(n) ELSE IntToStr(n \div 10) \o DigitText(n % 10)

\* variation: positions counted from one
ArgName_from_one(i) == "arg_" \o IntToStr(i + 1)

ArgName(i) == "arg_" \o IntToStr(i)

FormatDefault == <<Pos>>

AnonymousStructArm(variant) ==
    LET overridden == SelectSeq(variant.fields, LAMBDA fd : fd.display.some)
        field_displays ==
            [i \in 1..Len(overridden) |->
                Let(overridden[i].ident,
                    display_field(overridden[i].display, VarIdent(overridden[i].ident)))]
        fields == [i \in 1..Len(variant.fields) |-> variant.fields[i].ident]
    IN Arm(variant.ident, "Struct", fields, field_displays, variant.format, <<>>)

\* variation: the format of a Discriminant variant is not used
DiscriminantArm_without_format(variant) ==
    LET display == display_field(variant.display, VarExpr(variant.discriminant))
    IN Arm(variant.ident, "Unit", <<>>, <<>>, FormatDefault, <<display>>)

DiscriminantArm(variant) ==
    LET display == display_field(variant.display, VarExpr(variant.discriminant))
    IN IF variant.format.some
       THEN Arm(variant.ident, "Unit", <<>>, <<>>, variant.format.v, <<display>>)
       ELSE Arm(variant.ident, "Unit", <<>>, <<>>, FormatDefault, <<display>>)

SingleTypeArm(variant) ==
    LET error_var == "error"
        display == display_field(variant.display, VarIdent(error_var))
    IN IF variant.format.some
       THEN Arm(variant.ident, "Tuple", <<error_var>>, <<>>, variant.format.v, <<display>>)
       ELSE Arm(variant.ident, "Tuple", <<error_var>>, <<>>, FormatDefault, <<display>>)

\* a display of a position is bound as the literal itself: let #arg = #display
TupleArm(variant) ==
    LET args == [i \in 1..Len(variant.displays) |-> ArgName(i - 1)]
        idx == SelectSeq([i \in 1..Len(variant.displays) |-> i],
                         LAMBDA i : variant.displays[i].some)
        arg_displays ==
            [j \in 1..Len(idx) |-> Let(args[idx[j]], ExprLitStr(variant.displays[idx[j]].v))]
    IN Arm(variant.ident, "Tuple", args, arg_displays, variant.format, <<>>)

UnitArm(variant) == Arm(variant.ident, "Unit", <<>>, <<>>, variant.format, <<>>)

to_display_match_arm(variant) ==
    CASE variant.tag = "AnonymousStruct" -> AnonymousStructArm(variant)
      [] variant.tag = "Discriminant" -> DiscriminantArm(variant)
      [] variant.tag = "SingleType" -> SingleTypeArm(variant)
      [] variant.tag = "Tuple" -> TupleArm(variant)
      [] variant.tag = "Unit" -> UnitArm(variant)

\* None unless the variant is a SingleType without a format
\* variation: the format of a SingleType variant does not suppress its From
to_from_impl_any_format(variant, onto) ==
    IF variant.tag # "SingleType" THEN None
    ELSE Some([kind |-> "From", ty |-> variant.ty, onto |-> onto,
               variant |-> variant.ident])

to_from_impl(variant, onto) ==
    IF variant.tag # "SingleType" THEN None
    ELSE IF variant.format.some THEN None
    ELSE Some([kind |-> "From", ty |-> variant.ty, onto |-> onto,
               variant |-> variant.ident])

(***************************************************************************)
(* struct EnumError: to_display_impl and to_from_impls.                    *)
(***************************************************************************)
\* variation: the format of the type is not used
to_display_impl_without_format(self) ==
    [kind |-> "Display", onto |-> self.ident, body |-> "match",
     format |-> FormatDefault,
     arms |-> [i \in 1..Len(self.variants) |-> to_display_match_arm(self.variants[i])]]

\* write!(f, #format, match self { #match_arms }), "{}" without a format
to_display_impl(self) ==
    [kind |-> "Display", onto |-> self.ident, body |-> "match",
     format |-> IF self.format.some THEN self.format.v ELSE FormatDefault,
     arms |-> [i \in 1..Len(self.variants) |-> to_display_match_arm(self.variants[i])]]

\* flat_map over the variants: the Some results, in order
to_from_impls(self) ==
    LET impls == [i \in 1..Len(self.variants) |->
                     to_from_impl(self.variants[i], self.ident)]
        some == SelectSeq(impls, LAMBDA o : o.some)
    IN [i \in 1..Len(some) |-> some[i].v]

(***************************************************************************)
(* struct StructError, enum StructErrorVariant.                            *)
(***************************************************************************)
StructNamed(fields) == [tag |-> "Named", fields |-> fields]
StructSingleUnnamed == [tag |-> "SingleUnnamed"]
StructUnit == [tag |-> "Unit"]
StructUnnamed(displays) == [tag |-> "Unnamed", displays |-> displays]

StructErrorVariantFrom(fields) ==
    CASE fields.kind = "Named" -> StructNamed(NamedFieldDisplays(fields.list))
      [] fields.kind = "Unnamed" ->
           IF Len(fields.list) = 1 THEN StructSingleUnnamed
           ELSE StructUnnamed(FieldDisplays(fields.list))
      [] fields.kind = "Unit" -> StructUnit

\* StructErrorVariant::to_display_impl: the body of fmt binds names to members
\* of self, then write!(f, #self_format, ...)
StructToDisplayImpl(variant, self_ident, self_format) ==
    LET arm ==
          CASE variant.tag = "Named" ->
                 Arm("", "Self", <<>>,
                     [i \in 1..Len(variant.fields) |->
                         Let(variant.fields[i].ident,
                             display_field(variant.fields[i].display,
                                           VarSelf(variant.fields[i].ident)))],
                     self_format, <<>>)
            [] variant.tag = "SingleUnnamed" ->
                 Arm("", "Self", <<>>, <<>>, self_format, <<ExprVar(VarSelf("0"))>>)
            [] variant.tag = "Unit" ->
                 Arm("", "Self", <<>>, <<>>, self_format, <<>>)
            [] variant.tag = "Unnamed" ->
                 Arm("", "Self", <<>>,
                     [i \in 1..Len(variant.displays) |->
                         Let(ArgName(i - 1),
                             display_field(variant.displays[i],
                                           VarSelf(IntToStr(i - 1))))],
                     self_format, <<>>)
    IN [kind |-> "Display", onto |-> self_ident, body |-> "direct",
        format |-> FormatDefault, arms |-> <<arm>>]

(***************************************************************************)
(* Running the emitted code.  Values are integers and strings; CompileErr  *)
(* stands for code the compiler rejects.                                   *)
(***************************************************************************)
\* a String, or the error of the compiler
Text(s) == [ok |-> TRUE, v |-> s, err |-> ""]
Rejected(e) == [ok |-> FALSE, v |-> "", err |-> e]
\* fmt calls itself on the same value: no String is ever produced
Unbounded == [ok |-> FALSE, v |-> "", err |-> "UnboundedRecursion"]

IntV(n) == [t |-> "int", n |-> n, s |-> ""]
StrV(s) == [t |-> "str", n |-> 0, s |-> s]
CompileErr == [t |-> "cerr", n |-> 0, s |-> ""]

\* Display of a primitive value
ToText(v) == IF v.t = "int" THEN IntToStr(v.n) ELSE v.s

Bind(name, value) == [name |-> name, value |-> value]

\* the innermost binding of name in scope
RECURSIVE Lookup(_, _)
Lookup(env, name) ==
    IF env = <<>> THEN CompileErr
    ELSE IF env[Len(env)].name = name THEN env[Len(env)].value
    ELSE Lookup(SubSeq(env, 1, Len(env) - 1), name)

EvalVariable(var, env, members) ==
    CASE var.k = "ident" -> Lookup(env, var.name)
      [] var.k = "expr" -> IntV(var.n)
      [] var.k = "self" -> Lookup(members, var.member)

\* calling the parsed display expression on a value
ApplyConversion(conv, v) ==
    IF conv = DisplayInc /\ v.t = "int" THEN IntV(v.n + 1) ELSE CompileErr

EvalExpr(e, env, members) ==
    CASE e.k = "var" -> EvalVariable(e.var, env, members)
      [] e.k = "call" -> ApplyConversion(e.conv, EvalVariable(e.var, env, members))
      [] e.k = "litstr" -> StrV(RawText(e.lit))

RECURSIVE RunLets(_, _, _)
RunLets(lets, env, members) ==
    IF lets = <<>> THEN env
    ELSE RunLets(Tail(lets),
                 Append(env, Bind(Head(lets).name,
                                  EvalExpr(Head(lets).expr, env, members))),
                 members)

\* format!(fmt, args...): {} takes the next explicit argument, {name} the
\* binding in scope; an argument left over, a missing argument and an unknown
\* name are compile errors
RECURSIVE FormatFrom(_, _, _, _)
FormatFrom(fmt, args, next, env) ==
    IF fmt = <<>>
    THEN (IF next = Len(args) + 1 THEN Text("") ELSE Rejected("ArgumentNeverUsed"))
    ELSE LET p == Head(fmt)
             v == CASE p.k = "lit" -> StrV(p.s)
                    [] p.k = "pos" -> IF next <= Len(args) THEN args[next] ELSE CompileErr
                    [] p.k = "named" -> Lookup(env, p.s)
             rest == FormatFrom(Tail(fmt), args, IF p.k = "pos" THEN next + 1 ELSE next, env)
         IN IF v.t = "cerr" THEN Rejected("InvalidReference")
            ELSE IF ~rest.ok THEN rest
            ELSE Text(ToText(v) \o rest.v)

Format(fmt, args, env) == FormatFrom(fmt, args, 1, env)

\* the value of one arm on a payload
EvalArm(arm, payload, members) ==
    LET bound == [i \in 1..Len(arm.binders) |-> Bind(arm.binders[i], payload[i])]
        env == RunLets(arm.lets, bound, members)
        args == [i \in 1..Len(arm.args) |-> EvalExpr(arm.args[i], env, members)]
    IN Format(arm.format, args, env)

\* the arm of a match that takes the value: the first with its variant
RECURSIVE MatchArm(_, _, _)
MatchArm(arms, ident, i) ==
    IF i > Len(arms) THEN 0
    ELSE IF arms[i].variant = ident THEN i
    ELSE MatchArm(arms, ident, i + 1)

\* <T as Display>::fmt of the emitted implementation: the value of the
\* matched arm (inner) and the text written (result)
EvalDisplay(impl, value, members) ==
    IF impl.body = "self"
    THEN [run |-> TRUE, inner |-> Unbounded, result |-> Unbounded]
    ELSE IF impl.body = "direct"
    THEN LET r == EvalArm(impl.arms[1], value.payload, members)
         IN [run |-> TRUE, inner |-> r, result |-> r]
    ELSE LET i == MatchArm(impl.arms, value.variant, 1)
             inner == IF i = 0 THEN Rejected("NonExhaustive")
                      ELSE EvalArm(impl.arms[i], value.payload, members)
         IN [run |-> TRUE, inner |-> inner,
             result |-> IF inner.ok THEN Format(impl.format, <<StrV(inner.v)>>, <<>>)
                        ELSE inner]

(***************************************************************************)
(* fn enum_error of lib.rs, the derive registered there under the name    *)
(* EnumError: a map from the type of the first field of each variant to    *)
(* the variant, a From implementation per entry, and a Display             *)
(* implementation that delegates to the payload.                           *)
(***************************************************************************)
\* variant.fields.iter().map(|field| &field.ty).next()
FirstFieldType(variant) ==
    IF Len(variant.fields.list) = 0 THEN None ELSE Some(variant.fields.list[1].ty)

\* HashMap::entry(ty): the entries are kept in the order of insertion
MapHasKey(entries, ty) == \E i \in 1..Len(entries) : entries[i].ty = ty

\* one step of the for_each over the variants: Ok(the map), or the diagnostic
LegacyInsert(entries, variant) ==
    LET option == FirstFieldType(variant)
    IN IF ~option.some
       THEN [ok |-> FALSE, v |-> <<>>, err |-> Diag("VariantWithoutType", variant.ident, "")]
       ELSE IF MapHasKey(entries, option.v)
       THEN [ok |-> FALSE, v |-> <<>>, err |-> Diag("DifferentTypes", variant.ident, "")]
       ELSE Ok(Append(entries, [ty |-> option.v, ident |-> variant.ident]))

\* the orders a HashMap may be iterated in
Orders(n) == {o \in [1..n -> 1..n] : \A i, j \in 1..n : i # j => o[i] # o[j]}

LegacyFromImpls(entries, order, ident) ==
    [i \in 1..Len(entries) |->
        [kind |-> "From", ty |-> entries[order[i]].ty, onto |-> ident,
         variant |-> entries[order[i]].ident]]

\* with more than one entry a match over the entries, otherwise
\* write!(f, "{}", self)
LegacyDisplayImpl(entries, order, ident) ==
    IF Len(entries) > 1
    THEN [kind |-> "Display", onto |-> ident, body |-> "match", format |-> FormatDefault,
          arms |-> [i \in 1..Len(entries) |->
                       Arm(entries[order[i]].ident, "Tuple", <<"error">>, <<>>,
                           FormatDefault, <<ExprVar(VarIdent("error"))>>)]]
    ELSE [kind |-> "Display", onto |-> ident, body |-> "self", format |-> FormatDefault,
          arms |-> <<>>]

(***************************************************************************)
(* The declarations a request is run on.                                   *)
(***************************************************************************)
FormatAttr(lit) == StrAttr("format", lit)
DisplayAttr(lit) == StrAttr("display", lit)

\* the type of position i of an unnamed payload, the name and type of
\* named field i
UnnamedTypeAt(i) == CASE i = 1 -> "i8" [] i = 2 -> "u8" [] OTHER -> "str"
NamedIdentAt(i) == CASE i = 1 -> "file" [] i = 2 -> "offset" [] OTHER -> "extra"
NamedTypeAt(i) == CASE i = 1 -> "str" [] i = 2 -> "usize" [] OTHER -> "u8"

\* the values of a type
Values(ty) ==
    CASE ty = "i8" -> {IntV(1), IntV(10)}
      [] ty = "u8" -> {IntV(2)}
      [] ty = "usize" -> {IntV(10)}
      [] ty = "str" -> {StrV("boom"), StrV("foo.mp3")}

\* field attributes: no display anywhere, or a display on field d
FieldAttrs(i, d) == IF i = d THEN <<DisplayAttr(DisplayInc)>> ELSE <<>>
UnnamedList(n, d) == [i \in 1..n |-> Field("", UnnamedTypeAt(i), FieldAttrs(i, d))]
NamedList(n, d) == [i \in 1..n |-> Field(NamedIdentAt(i), NamedTypeAt(i), FieldAttrs(i, d))]

UnitAttrLists == {<<>>, <<FormatAttr(FmtPlain)>>, <<IntAttr("format")>>}
DiscriminantAttrLists ==
    {<<>>, <<FormatAttr(FmtPositional)>>, <<DisplayAttr(DisplayInc)>>,
     <<FormatAttr(FmtPositional), DisplayAttr(DisplayInc)>>}
SingleAttrLists ==
    DiscriminantAttrLists \cup
    {<<IntAttr("format")>>, <<DisplayAttr(DisplayUnbalanced)>>, <<IntAttr("display")>>,
     <<IntAttr("format"), FormatAttr(FmtPositional)>>}
TupleAttrLists == {<<>>, <<FormatAttr(FmtArgs)>>}
NamedAttrLists == {<<>>, <<FormatAttr(FmtNamed)>>, <<PathAttr("format")>>}

\* the variants, before they are given their names
VariantShapes ==
    {Variant("", a, FieldsUnit, NoDiscriminant) : a \in UnitAttrLists}
    \cup {Variant("", a, FieldsUnit, Some(404)) : a \in DiscriminantAttrLists}
    \cup {Variant("", a, FieldsUnnamed(<<Field("", "i8", <<>>)>>), NoDiscriminant) :
             a \in SingleAttrLists}
    \cup {Variant("", a, FieldsUnnamed(<<Field("", "str", <<>>)>>), NoDiscriminant) :
             a \in {<<>>, <<FormatAttr(FmtPositional)>>}}
    \cup {Variant("", <<>>, FieldsUnnamed(<<Field("", "i8", <<>>)>>), Some(404)),
          Variant("", <<FormatAttr(FmtPlain)>>, FieldsUnnamed(<<>>), NoDiscriminant),
          Variant("", <<FormatAttr(FmtPlain)>>, FieldsUnnamed(<<>>), Some(404)),
          Variant("", <<FormatAttr(FmtPlain)>>, FieldsNamed(<<>>), NoDiscriminant),
          Variant("", <<FormatAttr(FmtArgs)>>,
                  FieldsUnnamed(<<Field("", "i8", <<IntAttr("display")>>),
                                  Field("", "u8", <<>>)>>), NoDiscriminant)}
    \cup {Variant("", a, FieldsUnnamed(UnnamedList(n, d)), NoDiscriminant) :
             a \in TupleAttrLists, n \in 2..MaxFields, d \in 0..1}
    \cup {Variant("", a, FieldsNamed(NamedList(n, d)), NoDiscriminant) :
             a \in NamedAttrLists, n \in 2..MaxFields, d \in {0, 2}}

VariantIdent(i) == "V" \o IntToStr(i)

\* the first two variants of a declaration are of any shape; a longer
\* declaration goes on with field-less variants and one-field variants
LaterShapes ==
    {Variant("", <<>>, FieldsUnit, NoDiscriminant),
     Variant("", <<FormatAttr(FmtPlain)>>, FieldsUnit, NoDiscriminant),
     Variant("", <<>>, FieldsUnnamed(<<Field("", "i8", <<>>)>>), NoDiscriminant)}

ShapesAt(i) == IF i <= 2 THEN VariantShapes ELSE LaterShapes

VariantLists ==
    UNION {{[i \in 1..n |-> [f[i] EXCEPT !.ident = VariantIdent(i)]] :
               f \in {g \in [1..n -> VariantShapes] : \A i \in 1..n : g[i] \in ShapesAt(i)}} :
           n \in 0..MaxVariants}

EnumAttrLists ==
    {<<>>, <<FormatAttr(FmtTopLevel)>>, <<IntAttr("format")>>,
     <<PathAttr("format"), FormatAttr(FmtTopLevel)>>}

DeriveInput(attrs, data, variants, fields) ==
    [ident |-> "TestError", attrs |-> attrs, data |-> data, variants |-> variants,
     fields |-> fields]

EnumInputs == {DeriveInput(a, "Enum", vs, FieldsUnit) : a \in EnumAttrLists, vs \in VariantLists}

StructFields ==
    {FieldsUnit, FieldsUnnamed(<<Field("", "i8", <<>>)>>),
     FieldsUnnamed(<<Field("", "i8", <<DisplayAttr(DisplayInc)>>)>>),
     FieldsNamed(<<Field("file", "str", <<>>), Field("offset", "usize", <<IntAttr("display")>>)>>)}
    \cup {FieldsUnnamed(UnnamedList(n, d)) : n \in 2..MaxFields, d \in 0..1}
    \cup {FieldsNamed(NamedList(n, d)) : n \in 2..MaxFields, d \in {0, 2}}

\* the last five: the same key twice, and a key that only resembles it
StructAttrLists ==
    {<<>>, <<IntAttr("format")>>, <<FormatAttr(FmtPlain)>>, <<FormatAttr(FmtPositional)>>,
     <<FormatAttr(FmtArgs)>>, <<FormatAttr(FmtNamed)>>,
     <<FormatAttr(FmtPositional), FormatAttr(FmtPlain)>>,
     <<FormatAttr(FmtPlain), IntAttr("format")>>,
     <<IntAttr("format"), FormatAttr(FmtPositional)>>,
     <<PathAttr("format"), FormatAttr(FmtPlain)>>,
     <<StrAttr("formats", FmtPositional), FormatAttr(FmtPlain)>>,
     <<StrAttr("formats", FmtPlain)>>}

StructInputs == {DeriveInput(a, "Struct", <<>>, fs) : a \in StructAttrLists, fs \in StructFields}

UnionInputs == {DeriveInput(<<>>, "Union", <<>>, FieldsUnit)}

Inputs == EnumInputs \cup StructInputs \cup UnionInputs

\* fn enum_error declares no helper attribute: its declarations carry none
NoAttrs(v) ==
    /\ v.attrs = <<>>
    /\ \A i \in 1..Len(v.fields.list) : v.fields.list[i].attrs = <<>>

LegacyInputs ==
    {in \in Inputs : /\ in.attrs = <<>>
                     /\ \A i \in 1..Len(in.variants) : NoAttrs(in.variants[i])
                     /\ \A i \in 1..Len(in.fields.list) : in.fields.list[i].attrs = <<>>}

(***************************************************************************)
(* The state of one generation request.                                    *)
(***************************************************************************)
VARIABLES
    macro,      \* the derive that runs: "EnumError", "StructError", or
                \* "enum_error" for the function of lib.rs
    input,      \* the DeriveInput
    pc,         \* start, classify, built, display, done, aborted
    variants,   \* the EnumVariants collected so far (enum_error: its map)
    this,       \* the EnumError / StructError once built
    tokens,     \* the stream to_tokens is collecting
    output,     \* the emitted fragment
    diag,       \* the diagnostic of an abort
    value,      \* a value of the declared type at run time, and how it was made
    rendered    \* value.to_string()

vars == <<macro, input, pc, variants, this, tokens, output, diag, value, rendered>>

NoThis == [ident |-> "", format |-> None, variants |-> <<>>]
NoValue == [variant |-> "", payload |-> <<>>, via |-> ""]
NotRendered == [run |-> FALSE, inner |-> Rejected(""), result |-> Rejected("")]

Init ==
    /\ \/ macro = "EnumError" /\ input \in Inputs
       \/ macro = "StructError" /\ input \in {in \in Inputs : Len(in.variants) = 0}
       \/ macro = "enum_error" /\ input \in LegacyInputs
    /\ pc = "start"
    /\ variants = <<>>
    /\ this = NoThis
    /\ tokens = <<>>
    /\ output = <<>>
    /\ diag = NoDiag
    /\ value = NoValue
    /\ rendered = NotRendered

\* variation: the diagnostic is raised and the Display implementation of the
\* variants collected so far is emitted with it
Abort_with_fragment(d) ==
    /\ pc' = "aborted"
    /\ diag' = d
    /\ output' = output \o <<to_display_impl([ident |-> input.ident, format |-> None,
                                              variants |-> variants])>>
    /\ UNCHANGED <<macro, input, variants, this, tokens, value, rendered>>

\* Diagnostic::abort: the request ends with the diagnostic
Abort(d) ==
    /\ pc' = "aborted"
    /\ diag' = d
    /\ UNCHANGED <<macro, input, variants, this, tokens, output, value, rendered>>

\* EnumError::from, up to the iteration over the variants
EnumErrorFromBegin ==
    /\ pc = "start"
    /\ macro = "EnumError"
    /\ IF input.data # "Enum"
       THEN Abort(Diag("NotEnum", "", ""))
       ELSE /\ pc' = "classify"
            /\ UNCHANGED <<macro, input, variants, this, tokens, output, diag, value,
                           rendered>>

\* one step of data.variants.iter().map(EnumVariant::from)
ClassifyVariant ==
    /\ pc = "classify"
    /\ macro = "EnumError"
    /\ Len(variants) < Len(input.variants)
    /\ LET r == EnumVariantFrom(input.variants[Len(variants) + 1])
       IN IF r.ok
          THEN /\ variants' = Append(variants, r.v)
               /\ UNCHANGED <<macro, input, pc, this, tokens, output, diag, value,
                              rendered>>
          ELSE Abort(r.err)

\* the iterator is exhausted: collect, and build the EnumError
EnumErrorFromFinish ==
    /\ pc = "classify"
    /\ macro = "EnumError"
    /\ Len(variants) = Len(input.variants)
    /\ this' = [ident |-> input.ident,
                format |-> ResultOk(attrs_get_lit_str(input.attrs, "format")),
                variants |-> variants]
    /\ pc' = "built"
    /\ UNCHANGED <<macro, input, variants, tokens, output, diag, value, rendered>>

\* to_tokens, first convertor
ToDisplayImpl ==
    /\ pc = "built"
    /\ macro = "EnumError"
    /\ tokens' = <<to_display_impl(this)>>
    /\ pc' = "display"
    /\ UNCHANGED <<macro, input, variants, this, output, diag, value, rendered>>

\* to_tokens, second convertor, and output.extend
ToFromImpls ==
    /\ pc = "display"
    /\ output' = output \o tokens \o to_from_impls(this)
    /\ tokens' = <<>>
    /\ pc' = "done"
    /\ UNCHANGED <<macro, input, variants, this, diag, value, rendered>>

\* StructError::from
StructErrorFrom ==
    /\ pc = "start"
    /\ macro = "StructError"
    /\ IF input.data # "Struct"
       THEN Abort(Diag("NotStruct", "", ""))
       ELSE LET format == attrs_get_lit_str(input.attrs, "format")
            IN IF ~format.ok
               THEN Abort(Diag("StructRequiredFormat", "", ""))
               ELSE /\ this' = [ident |-> input.ident, format |-> format.v,
                                variant |-> StructErrorVariantFrom(input.fields)]
                    /\ pc' = "built"
                    /\ UNCHANGED <<macro, input, variants, tokens, output, diag, value,
                                   rendered>>

\* StructError::to_tokens
StructToTokens ==
    /\ pc = "built"
    /\ macro = "StructError"
    /\ output' = output \o <<StructToDisplayImpl(this.variant, this.ident, this.format)>>
    /\ pc' = "done"
    /\ UNCHANGED <<macro, input, variants, this, tokens, diag, value, rendered>>

(***************************************************************************)
(* Run time: values of the declared type are built, directly or through an *)
(* emitted From implementation, and turned into text by the emitted        *)
(* Display implementation.                                                 *)
(***************************************************************************)
Types == {"i8", "u8", "usize", "str"}
AllValues == UNION {Values(ty) : ty \in Types}

\* the payloads of a list of fields
Payloads(list) ==
    {p \in [1..Len(list) -> AllValues] : \A i \in 1..Len(list) : p[i] \in Values(list[i].ty)}

\* the members of self a struct's fmt can read
Members(fields, payload) ==
    [i \in 1..Len(payload) |->
        Bind(IF fields.kind = "Named" THEN fields.list[i].ident ELSE IntToStr(i - 1),
             payload[i])]

EnumValues(in) ==
    UNION {{[variant |-> in.variants[i].ident, payload |-> p, via |-> "constructor"] :
               p \in Payloads(in.variants[i].fields.list)} : i \in 1..Len(in.variants)}

StructValues(in) ==
    {[variant |-> "", payload |-> p, via |-> "constructor"] : p \in Payloads(in.fields.list)}

ValuesOf(in) == IF in.data = "Enum" THEN EnumValues(in) ELSE StructValues(in)

MembersOf(in, v) == IF in.data = "Struct" THEN Members(in.fields, v.payload) ELSE <<>>

\* the Display implementation of a fragment
DisplayImplOf(out) == out[CHOOSE i \in 1..Len(out) : out[i].kind = "Display"]
FromImplsOf(out) == SelectSeq(out, LAMBDA impl : impl.kind = "From")

\* self.to_string() with the emitted implementation
ToStringOf(out, in, v) == EvalDisplay(DisplayImplOf(out), v, MembersOf(in, v))

\* the pattern of an arm is one of the variant it names
PatternFits(arm, in) ==
    \E i \in 1..Len(in.variants) :
        /\ in.variants[i].ident = arm.variant
        /\ Len(arm.binders) = Len(in.variants[i].fields.list)
        /\ arm.pattern = CASE in.variants[i].fields.kind = "Named" -> "Struct"
                           [] in.variants[i].fields.kind = "Unnamed" -> "Tuple"
                           [] in.variants[i].fields.kind = "Unit" -> "Unit"

\* the compiler accepts the emitted code: every pattern fits its variant,
\* every arm type-checks, no two From implementations are for the same
\* type, and each wraps its one argument in a variant of one unnamed field
Compiles(out, in) ==
    /\ DisplayImplOf(out).body = "match" =>
          \A a \in 1..Len(DisplayImplOf(out).arms) : PatternFits(DisplayImplOf(out).arms[a], in)
    /\ \A v \in ValuesOf(in) :
          DisplayImplOf(out).body # "self" => ToStringOf(out, in, v).result.ok
    /\ \A i, j \in 1..Len(out) :
          (i # j /\ out[i].kind = "From" /\ out[j].kind = "From") => out[i].ty # out[j].ty
    /\ \A k \in 1..Len(out) :
          out[k].kind = "From" =>
             \E i \in 1..Len(in.variants) :
                /\ in.variants[i].ident = out[k].variant
                /\ in.variants[i].fields.kind = "Unnamed"
                /\ Len(in.variants[i].fields.list) = 1
                /\ in.variants[i].fields.list[1].ty = out[k].ty

\* a value is written out with one of the type's constructors
Construct ==
    /\ pc = "done"
    /\ Compiles(output, input)
    /\ \E v \in ValuesOf(input) :
          /\ v # value
          /\ value' = v
    /\ rendered' = NotRendered
    /\ UNCHANGED <<macro, input, pc, variants, this, tokens, output, diag>>

\* a payload is converted with an emitted From implementation
ConvertFrom ==
    /\ pc = "done"
    /\ Compiles(output, input)
    /\ \E i \in 1..Len(output) :
          /\ output[i].kind = "From"
          /\ \E p \in Values(output[i].ty) :
                value' = [variant |-> output[i].variant, payload |-> <<p>>, via |-> "from"]
    /\ rendered' = NotRendered
    /\ UNCHANGED <<macro, input, pc, variants, this, tokens, output, diag>>

\* value.to_string()
Stringify ==
    /\ pc = "done"
    /\ value.via # ""
    /\ ~rendered.run
    /\ rendered' = ToStringOf(output, input, value)
    /\ UNCHANGED <<macro, input, pc, variants, this, tokens, output, diag, value>>

\* enum_error, up to the iteration over the variants
LegacyBegin ==
    /\ pc = "start"
    /\ macro = "enum_error"
    /\ IF input.data # "Enum"
       THEN Abort(Diag("NotEnum", input.ident, ""))
       ELSE /\ pc' = "classify"
            /\ UNCHANGED <<macro, input, variants, this, tokens, output, diag, value,
                           rendered>>

\* one variant through the iterator chain: its first type, then the map entry
LegacyVariant ==
    /\ pc = "classify"
    /\ macro = "enum_error"
    /\ Len(variants) < Len(input.variants)
    /\ LET r == LegacyInsert(variants, input.variants[Len(variants) + 1])
       IN IF r.ok
          THEN /\ variants' = r.v
               /\ UNCHANGED <<macro, input, pc, this, tokens, output, diag, value,
                              rendered>>
          ELSE Abort(r.err)

\* the From implementations, then the Display implementation, in an order of
\* iteration of the map
LegacyEmit ==
    /\ pc = "classify"
    /\ macro = "enum_error"
    /\ Len(variants) = Len(input.variants)
    /\ \E o1, o2 \in Orders(Len(variants)) :
          output' = output \o LegacyFromImpls(variants, o1, input.ident)
                           \o <<LegacyDisplayImpl(variants, o2, input.ident)>>
    /\ pc' = "done"
    /\ UNCHANGED <<macro, input, variants, this, tokens, diag, value, rendered>>

Next ==
    \/ EnumErrorFromBegin
    \/ ClassifyVariant
    \/ EnumErrorFromFinish
    \/ ToDisplayImpl
    \/ ToFromImpls
    \/ StructErrorFrom
    \/ StructToTokens
    \/ LegacyBegin
    \/ LegacyVariant
    \/ LegacyEmit
    \/ Construct
    \/ ConvertFrom
    \/ Stringify

Spec == Init /\ [][Next]_vars

(***************************************************************************)
(* Vocabulary of the properties, read off the declaration alone.           *)
(***************************************************************************)
HasKey(attrs, key) == \E i \in 1..Len(attrs) : attrs[i].key = key

\* annotations are an ordered mapping in which the first occurrence of a name
\* is the one kept
FirstWithKey(attrs, key) ==
    CHOOSE i \in 1..Len(attrs) :
        attrs[i].key = key /\ \A j \in 1..(i - 1) : attrs[j].key # key

\* the annotation `key` is there and its value is a string literal
CarriesString(attrs, key) ==
    /\ HasKey(attrs, key)
    /\ attrs[FirstWithKey(attrs, key)].meta = "NameValue"
    /\ attrs[FirstWithKey(attrs, key)].lit = "Str"

StringOf(attrs, key) == attrs[FirstWithKey(attrs, key)].val

\* exactly one unnamed field
DeclaredSingleType(v) == v.fields.kind = "Unnamed" /\ Len(v.fields.list) = 1

\* a fixed discriminant and no fields
DeclaredDiscriminant(v) == v.discriminant.some /\ v.fields = FieldsUnit

\* the shapes that have no text of their own: Tuple, AnonymousStruct, Unit
DeclaredFormatRequired(v) == ~DeclaredSingleType(v) /\ ~DeclaredDiscriminant(v)

\* a request to the EnumError of enum_error.rs; to either derive for enums
EnumRequest == macro = "EnumError" /\ input.data = "Enum"
SumRequest == macro \in {"EnumError", "enum_error"} /\ input.data = "Enum"
StructRequest == macro = "StructError" /\ input.data = "Struct"
Ended == pc \in {"done", "aborted"}

\* the conversion rules of the fragment
ConversionRules == {i \in 1..Len(output) : output[i].kind = "From"}

\* the later variant of the first pair of SingleType variants with one payload type
DuplicatePairs(in) ==
    {j \in 1..Len(in.variants) :
        /\ DeclaredSingleType(in.variants[j])
        /\ \E i \in 1..(j - 1) :
              /\ DeclaredSingleType(in.variants[i])
              /\ in.variants[i].fields.list[1].ty = in.variants[j].fields.list[1].ty}

LaterDuplicate(in) ==
    CHOOSE j \in DuplicatePairs(in) : \A k \in DuplicatePairs(in) : j <= k

(***************************************************************************)
(* C1: generation for a sum type with two SingleType variants of the same  *)
(* payload type fails with a duplicate-payload-type diagnostic that names  *)
(* the later variant, and emits nothing.  (Stated for declarations in      *)
(* which no variant is refused for another reason, so that no other        *)
(* diagnostic comes first.  The one diagnostic of the source for a         *)
(* repeated type is that of the map of enum_error.)                        *)
(***************************************************************************)
NoOtherRefusal(in) ==
    \A i \in 1..Len(in.variants) :
        IF macro = "EnumError"
        THEN EnumVariantFrom(in.variants[i]).ok
        ELSE FirstFieldType(in.variants[i]).some

C1_DuplicatePayloadRejected ==
    (/\ SumRequest
     /\ DuplicatePairs(input) # {}
     /\ NoOtherRefusal(input))
    => /\ output = <<>>
       /\ pc # "done"
       /\ pc = "aborted" =>
             /\ diag.kind = "DifferentTypes"
             /\ diag.ident = input.variants[LaterDuplicate(input)].ident

(***************************************************************************)
(* C3: a fragment has at most one conversion rule per payload type.        *)
(***************************************************************************)
C3_OneRulePerPayloadType ==
    \A i, j \in ConversionRules : i # j => output[i].ty # output[j].ty

(***************************************************************************)
(* C4: generation for a sum type with zero variants fails with the         *)
(* unsupported-shape diagnostic and emits nothing, whatever its            *)
(* annotations.                                                            *)
(***************************************************************************)
C4_EmptySumTypeRejected ==
    (SumRequest /\ input.variants = <<>>)
    => /\ output = <<>>
       /\ pc # "done"
       /\ Ended => (pc = "aborted" /\ diag.kind = "NotEnum")

(***************************************************************************)
(* C2: in the fragment EnumError emits for an accepted sum type, a variant  *)
(* has a conversion                                                        *)
(* rule (From its payload type, wrapping in that variant) if and only if   *)
(* it has exactly one unnamed field and carries no format annotation       *)
(* (annotations being string-valued, first occurrence kept).               *)
(***************************************************************************)
HasConversionRule(v) ==
    \E k \in ConversionRules :
        /\ output[k].variant = v.ident
        /\ output[k].onto = input.ident
        /\ DeclaredSingleType(v) => output[k].ty = v.fields.list[1].ty

C2_ConversionRuleIff ==
    (EnumRequest /\ pc = "done")
    => /\ \A i \in 1..Len(input.variants) :
             HasConversionRule(input.variants[i])
             <=> (/\ DeclaredSingleType(input.variants[i])
                  /\ ~CarriesString(input.variants[i].attrs, "format"))
       /\ \A k \in ConversionRules :
             \E i \in 1..Len(input.variants) : output[k].variant = input.variants[i].ident

\* an accepted type with a rule for V1, and a SingleType V2 with a format
\* and without a rule
C2_Witness ==
    /\ EnumRequest
    /\ pc = "done"
    /\ Len(input.variants) = 2
    /\ HasConversionRule(input.variants[1])
    /\ DeclaredSingleType(input.variants[2])
    /\ CarriesString(input.variants[2].attrs, "format")
    /\ ~HasConversionRule(input.variants[2])

(***************************************************************************)
(* C5: every Tuple, AnonymousStruct and Unit variant of an accepted sum    *)
(* type carries a string format; when some such variant lacks one the      *)
(* request aborts with the required-format diagnostic naming the first     *)
(* such variant in declaration order; SingleType and Discriminant variants *)
(* never cause that abort.                                                 *)
(***************************************************************************)
LacksRequiredFormat(v) == DeclaredFormatRequired(v) /\ ~CarriesString(v.attrs, "format")

Offending(in) == {i \in 1..Len(in.variants) : LacksRequiredFormat(in.variants[i])}

FirstOffending(in) == CHOOSE i \in Offending(in) : \A k \in Offending(in) : i <= k

C5_RequiredFormat ==
    EnumRequest
    => /\ pc \in {"built", "display", "done"} => Offending(input) = {}
       /\ pc = "aborted" =>
             /\ Offending(input) # {}
             /\ diag.kind = "RequiredFormat"
             /\ diag.ident = input.variants[FirstOffending(input)].ident

\* two variants lack their format, and the first one is named
C5_Witness ==
    /\ EnumRequest
    /\ pc = "aborted"
    /\ Cardinality(Offending(input)) = 2
    /\ diag.kind = "RequiredFormat"
    /\ diag.ident = "V1"

\* a SingleType and a Discriminant variant, both without format, are accepted
C5_WitnessAccepted ==
    /\ EnumRequest
    /\ pc = "done"
    /\ \E i, j \in 1..Len(input.variants) :
          /\ DeclaredSingleType(input.variants[i])
          /\ DeclaredDiscriminant(input.variants[j])
          /\ ~HasKey(input.variants[i].attrs, "format")
          /\ ~HasKey(input.variants[j].attrs, "format")

(***************************************************************************)
(* C6: within a request every variant is classified and validated before   *)
(* anything is synthesised, and a request that raised a diagnostic emits   *)
(* nothing: it ends with the complete fragment or with one diagnostic.     *)
(***************************************************************************)
Synthesising == tokens # <<>> \/ output # <<>>

C6_ValidateBeforeSynthesis ==
    /\ Synthesising =>
          /\ diag = NoDiag
          /\ pc \in {"display", "done"}
          /\ macro = "EnumError" => /\ Len(variants) = Len(input.variants)
                                  /\ this.variants = variants
    /\ pc = "aborted" => (diag # NoDiag /\ ~Synthesising)
    /\ diag # NoDiag => pc = "aborted"
    /\ pc = "done" =>
          /\ output # <<>>
          /\ tokens = <<>>
          /\ DisplayImplOf(output).kind = "Display"
          /\ macro = "EnumError" =>
                /\ Len(DisplayImplOf(output).arms) = Len(input.variants)
                /\ \A i \in 1..Len(input.variants) :
                      DisplayImplOf(output).arms[i].variant = input.variants[i].ident

\* a request in which the first variant is classified and the second is
\* refused
C6_Witness ==
    /\ EnumRequest
    /\ pc = "aborted"
    /\ Len(variants) = 1
    /\ Len(input.variants) = 2
    /\ output = <<>>

(***************************************************************************)
(* Vocabulary of the run-time properties.                                  *)
(***************************************************************************)
\* the declaration of the variant the value is of
ValueVariant ==
    input.variants[CHOOSE i \in 1..Len(input.variants) :
                       input.variants[i].ident = value.variant]

EnumRendered == EnumRequest /\ rendered.run
StructRendered == StructRequest /\ rendered.run

(***************************************************************************)
(* C7: the text of a sum-type value is composed in two stages: the matched *)
(* variant is rendered; with a type-level format the text is that template *)
(* instantiated with the variant's text as its only positional argument,   *)
(* without one it is the variant's text unchanged.                         *)
(***************************************************************************)
C7_TwoStageComposition ==
    EnumRendered
    => /\ rendered.inner.ok
       /\ CarriesString(input.attrs, "format") =>
             /\ rendered.result =
                   Format(StringOf(input.attrs, "format"), <<StrV(rendered.inner.v)>>, <<>>)
             /\ StringOf(input.attrs, "format") = FmtTopLevel =>
                   rendered.result.v = "an error occured: " \o rendered.inner.v
       /\ ~HasKey(input.attrs, "format") => rendered.result = rendered.inner

\* a SingleType value 10 under the type-level format
C7_Witness ==
    /\ EnumRendered
    /\ CarriesString(input.attrs, "format")
    /\ DeclaredSingleType(ValueVariant)
    /\ value.payload = <<IntV(10)>>
    /\ rendered.inner.v = "10"
    /\ rendered.result.v = "an error occured: 10"

\* a value of a type without format: the variant's text is the text
C7_WitnessNoFormat ==
    /\ EnumRendered
    /\ ~HasKey(input.attrs, "format")
    /\ DeclaredDiscriminant(ValueVariant)
    /\ rendered.result.v = "404"

(***************************************************************************)
(* C8: for a SingleType variant with no format, the text of the value made *)
(* by wrapping a payload in that variant is the text of the payload.       *)
(***************************************************************************)
SumRendered == SumRequest /\ rendered.run

C8_WrappedEqualsPayload ==
    (/\ SumRendered
     /\ DeclaredSingleType(ValueVariant)
     /\ ~HasKey(ValueVariant.attrs, "format"))
    => rendered.result = Text(ToText(value.payload[1]))

(***************************************************************************)
(* C9, as claimed: a Discriminant variant with a format renders as the     *)
(* format instantiated with the discriminant value, and without a format   *)
(* as the discriminant value.                                              *)
(***************************************************************************)
DiscriminantText(v) ==
    IF CarriesString(v.attrs, "format")
    THEN Format(StringOf(v.attrs, "format"), <<IntV(v.discriminant.v)>>, <<>>)
    ELSE Text(IntToStr(v.discriminant.v))

C9_DiscriminantRendering ==
    (/\ EnumRendered
     /\ DeclaredDiscriminant(ValueVariant)
     /\ CarriesString(ValueVariant.attrs, "format") \/ ~HasKey(ValueVariant.attrs, "format"))
    => rendered.inner = DiscriminantText(ValueVariant)

(***************************************************************************)
(* C9, amended: a Discriminant variant without a display directive renders *)
(* as its format instantiated with the discriminant value, and without a   *)
(* format as the discriminant value.                                       *)
(***************************************************************************)
C9_DiscriminantRenderingNoDisplay ==
    (/\ EnumRendered
     /\ DeclaredDiscriminant(ValueVariant)
     /\ ~CarriesString(ValueVariant.attrs, "display"))
    => /\ rendered.inner = DiscriminantText(ValueVariant)
       /\ (CarriesString(ValueVariant.attrs, "format")
           /\ StringOf(ValueVariant.attrs, "format") = FmtPositional)
          => rendered.inner.v = "error " \o IntToStr(ValueVariant.discriminant.v)

\* discriminant 404 with the format "error {}"
C9_Witness ==
    /\ EnumRendered
    /\ DeclaredDiscriminant(ValueVariant)
    /\ ValueVariant.discriminant.v = 404
    /\ CarriesString(ValueVariant.attrs, "format")
    /\ ~HasKey(ValueVariant.attrs, "display")
    /\ rendered.inner.v = "error 404"

(***************************************************************************)
(* C10: in the rendering fragment of every variant and of every product    *)
(* type, a named field is bound under its declared name and position i of  *)
(* a payload of n >= 2 unnamed fields under arg_i (from 0), each position  *)
(* under one name; so "lorem ipsum {arg_0} {arg_1}" on (1, 2) reads        *)
(* "lorem ipsum 1 2", and "decoding error at {file} {offset}" on           *)
(* file = "foo.mp3", offset = 10 reads "decoding error at foo.mp3 10".     *)
(***************************************************************************)
CanonicalArg(i) ==
    CASE i = 1 -> "arg_0" [] i = 2 -> "arg_1" [] i = 3 -> "arg_2" [] i = 4 -> "arg_3"

\* the name position i of the fields is to be bound under
CanonicalName(fields, i) ==
    IF fields.kind = "Named" THEN fields.list[i].ident ELSE CanonicalArg(i)

MemberName(fields, i) ==
    IF fields.kind = "Named" THEN fields.list[i].ident
    ELSE CASE i = 1 -> "0" [] i = 2 -> "1" [] i = 3 -> "2" [] i = 4 -> "3"

BindsPositions(fields) ==
    fields.kind = "Named" \/ (fields.kind = "Unnamed" /\ Len(fields.list) >= 2)

\* the pattern of the arm binds position i under its canonical name, and a
\* let of the arm only rebinds one of these names
EnumArmBinds(v, arm) ==
    /\ Len(arm.binders) = Len(v.fields.list)
    /\ \A i \in 1..Len(v.fields.list) : arm.binders[i] = CanonicalName(v.fields, i)
    /\ \A i, j \in 1..Len(arm.binders) : i # j => arm.binders[i] # arm.binders[j]
    /\ \A l \in 1..Len(arm.lets) :
          \E i \in 1..Len(arm.binders) : arm.lets[l].name = arm.binders[i]

\* the body of fmt binds member i of self under its canonical name
StructArmBinds(fields, arm) ==
    /\ Len(arm.lets) = Len(fields.list)
    /\ \A i \in 1..Len(fields.list) :
          /\ arm.lets[i].name = CanonicalName(fields, i)
          /\ arm.lets[i].expr.var = VarSelf(MemberName(fields, i))

NoFieldDisplay(fields) ==
    \A i \in 1..Len(fields.list) : ~HasKey(fields.list[i].attrs, "display")

\* the text the two templates give on a payload
ExpectedText(format, payload) ==
    IF format = FmtArgs
    THEN "lorem ipsum " \o ToText(payload[1]) \o " " \o ToText(payload[2])
    ELSE "decoding error at " \o ToText(payload[1]) \o " " \o ToText(payload[2])

C10_CanonicalBinding ==
    /\ (EnumRequest /\ pc = "done") =>
          \A i \in 1..Len(input.variants) :
              BindsPositions(input.variants[i].fields) =>
                  EnumArmBinds(input.variants[i], DisplayImplOf(output).arms[i])
    /\ (StructRequest /\ pc = "done" /\ BindsPositions(input.fields)) =>
          StructArmBinds(input.fields, DisplayImplOf(output).arms[1])
    /\ (/\ EnumRendered
        /\ BindsPositions(ValueVariant.fields)
        /\ NoFieldDisplay(ValueVariant.fields)
        /\ StringOf(ValueVariant.attrs, "format") \in {FmtArgs, FmtNamed}) =>
          rendered.inner =
              Text(ExpectedText(StringOf(ValueVariant.attrs, "format"), value.payload))
    /\ (/\ StructRendered
        /\ BindsPositions(input.fields)
        /\ NoFieldDisplay(input.fields)
        /\ StringOf(input.attrs, "format") \in {FmtArgs, FmtNamed}) =>
          rendered.result =
              Text(ExpectedText(StringOf(input.attrs, "format"), value.payload))

\* (1, 2) under "lorem ipsum {arg_0} {arg_1}"
C10_Witness ==
    /\ EnumRendered
    /\ ValueVariant.fields.kind = "Unnamed"
    /\ Len(value.payload) >= 2
    /\ value.payload[1] = IntV(1)
    /\ value.payload[2] = IntV(2)
    /\ rendered.inner.v = "lorem ipsum 1 2"

\* file = "foo.mp3", offset = 10 under "decoding error at {file} {offset}"
C10_WitnessNamed ==
    /\ EnumRendered
    /\ ValueVariant.fields.kind = "Named"
    /\ rendered.inner.v = "decoding error at foo.mp3 10"

\* the same two in a product type
C10_WitnessStruct ==
    /\ StructRendered
    /\ rendered.result.v \in {"lorem ipsum 1 2", "decoding error at foo.mp3 10"}

(***************************************************************************)
(* Vocabulary of the properties about display directives: the arm that     *)
(* renders the value, the names in scope in its body, and the value the    *)
(* template is given for a position.  The positions of a Discriminant      *)
(* variant are its discriminant, those of any other shape its fields.      *)
(***************************************************************************)
ValueArm ==
    IF input.data = "Struct" THEN DisplayImplOf(output).arms[1]
    ELSE DisplayImplOf(output).arms[MatchArm(DisplayImplOf(output).arms, value.variant, 1)]

ValueEnv ==
    RunLets(ValueArm.lets,
            [i \in 1..Len(ValueArm.binders) |-> Bind(ValueArm.binders[i], value.payload[i])],
            MembersOf(input, value))

RawValue(i) ==
    IF input.data = "Enum" /\ DeclaredDiscriminant(ValueVariant)
    THEN IntV(ValueVariant.discriminant.v)
    ELSE value.payload[i]

\* where the display directive of position i is written: on the variant for a
\* discriminant and for the single payload of a variant, on the field otherwise
DirectiveAttrs(i) ==
    IF input.data = "Struct" THEN input.fields.list[i].attrs
    ELSE IF DeclaredDiscriminant(ValueVariant) \/ DeclaredSingleType(ValueVariant)
    THEN ValueVariant.attrs
    ELSE ValueVariant.fields.list[i].attrs

\* the value the template gets for position i: by name where positions are
\* bound under names, as the positional argument otherwise
Exposed(i) ==
    LET fields == IF input.data = "Struct" THEN input.fields ELSE ValueVariant.fields
    IN IF BindsPositions(fields)
       THEN Lookup(ValueEnv, CanonicalName(fields, i))
       ELSE EvalExpr(ValueArm.args[1], ValueEnv, MembersOf(input, value))

(***************************************************************************)
(* C11: for every payload shape of a variant and of a product type, the    *)
(* value exposed for a position that has a display directive is the        *)
(* directive applied to the raw value, and the raw value itself for a      *)
(* position without one.                                                   *)
(***************************************************************************)
C11_DisplayApplied ==
    (EnumRendered \/ StructRendered)
    => LET positions ==
               IF input.data = "Enum" /\ DeclaredDiscriminant(ValueVariant) THEN {1}
               ELSE IF input.data = "Struct" THEN 1..Len(input.fields.list)
               ELSE 1..Len(ValueVariant.fields.list)
       IN \A i \in positions :
             /\ CarriesString(DirectiveAttrs(i), "display") =>
                   Exposed(i) = ApplyConversion(StringOf(DirectiveAttrs(i), "display"),
                                                RawValue(i))
             /\ ~HasKey(DirectiveAttrs(i), "display") => Exposed(i) = RawValue(i)

(***************************************************************************)
(* C12: a format or display annotation that is present with a value that   *)
(* is not a string literal makes generation fail, at the level of the      *)
(* type, of a variant and of a field, also where the annotation is         *)
(* optional; the request never goes on as if the annotation were absent.   *)
(* (Stated without the identity of the diagnostic: a request with such an  *)
(* annotation is never accepted and emits nothing.)                        *)
(***************************************************************************)
C12_WrongKindRejected ==
    LET notString(attrs, key) == HasKey(attrs, key) /\ ~CarriesString(attrs, key)
        inFields(fields) ==
            \E i \in 1..Len(fields.list) : notString(fields.list[i].attrs, "display")
        wrongKind ==
            \/ notString(input.attrs, "format")
            \/ input.data = "Struct" /\ inFields(input.fields)
            \/ \E i \in 1..Len(input.variants) :
                  \/ notString(input.variants[i].attrs, "format")
                  \/ notString(input.variants[i].attrs, "display")
                  \/ inFields(input.variants[i].fields)
    IN ((EnumRequest \/ StructRequest) /\ wrongKind)
       => /\ pc \notin {"built", "display", "done"}
          /\ output = <<>>

(***************************************************************************)
(* C13: a display directive whose text does not parse as an expression     *)
(* makes the whole request fail: the request is not accepted and no        *)
(* fragment, neither a Display implementation nor a conversion rule, is    *)
(* emitted.                                                                *)
(***************************************************************************)
C13_MalformedDisplayRejected ==
    LET malformed(attrs) ==
            /\ CarriesString(attrs, "display")
            /\ ~LitStrParse(StringOf(attrs, "display")).ok
        inFields(fields) == \E i \in 1..Len(fields.list) : malformed(fields.list[i].attrs)
        present ==
            \/ input.data = "Struct" /\ inFields(input.fields)
            \/ \E i \in 1..Len(input.variants) :
                  \/ malformed(input.variants[i].attrs)
                  \/ inFields(input.variants[i].fields)
    IN ((EnumRequest \/ StructRequest) /\ present)
       => /\ pc \notin {"built", "display", "done"}
          /\ output = <<>>

(***************************************************************************)
(* C14, as claimed: every variant is given one shape, the first that       *)
(* matches of: a discriminant and no fields, Discriminant; no fields,      *)
(* Unit; named fields, AnonymousStruct; one unnamed field, SingleType; two *)
(* or more unnamed fields, Tuple.                                          *)
(***************************************************************************)
C14_ClassifierByArity ==
    LET claimed(v) ==
            IF v.discriminant.some /\ Len(v.fields.list) = 0 THEN "Discriminant"
            ELSE IF Len(v.fields.list) = 0 THEN "Unit"
            ELSE IF v.fields.kind = "Named" THEN "AnonymousStruct"
            ELSE IF Len(v.fields.list) = 1 THEN "SingleType"
            ELSE "Tuple"
    IN EnumRequest
       => \A i \in 1..Len(variants) : variants[i].tag = claimed(input.variants[i])

(***************************************************************************)
(* C14, amended: every variant is given one shape, the first that matches  *)
(* of: a discriminant and no field list, Discriminant; no field list,      *)
(* Unit; a list of named fields of any length, AnonymousStruct; a list of  *)
(* exactly one unnamed field, SingleType; a list of unnamed fields of any  *)
(* other length, none included, Tuple.  A variant with a discriminant and  *)
(* a field list is classified by the list, and nothing of the discriminant *)
(* is kept.  A variant that is not given a shape is one whose shape        *)
(* requires a format.                                                      *)
(***************************************************************************)
C14_ClassifierByFieldList ==
    LET shape(v) ==
            IF v.discriminant.some /\ v.fields.kind = "Unit" THEN "Discriminant"
            ELSE IF v.fields.kind = "Unit" THEN "Unit"
            ELSE IF v.fields.kind = "Named" THEN "AnonymousStruct"
            ELSE IF Len(v.fields.list) = 1 THEN "SingleType"
            ELSE "Tuple"
    IN EnumRequest
       => /\ Len(variants) <= Len(input.variants)
          /\ \A i \in 1..Len(variants) :
                /\ variants[i].tag = shape(input.variants[i])
                /\ variants[i].tag \in
                      {"Discriminant", "Unit", "AnonymousStruct", "SingleType", "Tuple"}
                /\ variants[i].ident = input.variants[i].ident
                /\ ("discriminant" \in DOMAIN variants[i]) <=> variants[i].tag = "Discriminant"
          /\ pc = "aborted" /\ diag.kind = "RequiredFormat" =>
                shape(input.variants[Len(variants) + 1]) \in {"Unit", "AnonymousStruct", "Tuple"}

\* a variant with a discriminant and one unnamed field is a SingleType, and a
\* variant with an empty list of unnamed fields is a Tuple
C14_Witness ==
    /\ EnumRequest
    /\ pc = "done"
    /\ Len(variants) = 2
    /\ input.variants[1].discriminant.some
    /\ Len(input.variants[1].fields.list) = 1
    /\ variants[1].tag = "SingleType"
    /\ input.variants[2].fields = FieldsUnnamed(<<>>)
    /\ variants[2].tag = "Tuple"

(***************************************************************************)
(* C15: annotation lookup is by exact key, and the first annotation with   *)
(* the key, in declaration order, decides: its string value is returned;   *)
(* the result is NotFound when no annotation has the key; the lookup fails *)
(* when that first annotation is not a key = value pair or its value is    *)
(* not a string literal, whatever annotation with the same key follows.    *)
(* Stated of every list of annotations of the declaration, and of what the *)
(* request does with the result.                                           *)
(***************************************************************************)
C15_FirstAnnotationDecides ==
    LET lists ==
            {input.attrs}
            \cup {input.fields.list[j].attrs : j \in 1..Len(input.fields.list)}
            \cup {input.variants[i].attrs : i \in 1..Len(input.variants)}
            \cup UNION {{input.variants[i].fields.list[j].attrs :
                            j \in 1..Len(input.variants[i].fields.list)} :
                        i \in 1..Len(input.variants)}
        expected(attrs, key) ==
            LET with == {i \in 1..Len(attrs) : attrs[i].key = key}
                first == CHOOSE i \in with : \A j \in with : i <= j
            IN IF with = {} THEN Err("NotFound")
               ELSE IF attrs[first].meta # "NameValue" THEN Err("NotNameValue")
               ELSE IF attrs[first].lit # "Str" THEN Err("NotStringLiteral")
               ELSE Ok(attrs[first].val)
    IN /\ \A attrs \in lists : \A key \in {"format", "display"} :
             attrs_get_lit_str(attrs, key) = expected(attrs, key)
       /\ (StructRequest /\ pc \in {"built", "done"}) =>
             Ok(this.format) = expected(input.attrs, "format")
       /\ (StructRequest /\ pc = "aborted") => ~expected(input.attrs, "format").ok
       /\ (EnumRequest /\ pc = "aborted" /\ diag.kind = "RequiredFormat") =>
             diag.cause = expected(input.variants[Len(variants) + 1].attrs, "format").err

\* two format annotations with different strings: the first is the format of
\* the request
C15_Witness ==
    /\ StructRequest
    /\ pc = "done"
    /\ input.attrs = <<FormatAttr(FmtPositional), FormatAttr(FmtPlain)>>
    /\ this.format = FmtPositional
    /\ rendered.run
    /\ rendered.result.v = "error 1"

\* a first annotation that is not a string: the request fails although a
\* string follows
C15_WitnessFails ==
    /\ StructRequest
    /\ pc = "aborted"
    /\ input.attrs = <<IntAttr("format"), FormatAttr(FmtPositional)>>

(***************************************************************************)
(* C16: for every accepted sum type, one with a single variant included,   *)
(* the emitted fmt renders a value from the payload or the discriminant of *)
(* the matched variant and never by formatting the value itself again, so  *)
(* that turning a value into text ends with a text.                        *)
(***************************************************************************)
C16_RendersFromVariant ==
    (SumRequest /\ pc = "done" /\ Len(input.variants) >= 1)
    => /\ DisplayImplOf(output).body = "match"
       /\ rendered.run => rendered.result # Unbounded

====
